---- MODULE Spec2Model ----
(***************************************************************************)
(* Model of validate_orders.py: a script that loads amazon_orders.csv with *)
(* pandas, validates every row against the pydantic model AmazonOrder,     *)
(* partitions the rows into valid_rows / invalid_rows, prints a summary,   *)
(* writes valid_rows.csv / invalid_rows.csv, raises a Slack alert when     *)
(* invalid rows exist and exits with status 0 or 1.                        *)
(*                                                                         *)
(* CSV text is modelled as lexed cells: an empty cell, an integer literal, *)
(* a decimal literal with one fractional digit (held in tenths), a word,   *)
(* or dash-separated digit groups ("01-15-24" is <<0,1>>-<<1,5>>-<<2,4>>). *)
(* Floating-point values are held in tenths, so 3.0 is 30 and 2.5 is 25.   *)
(* Cells that pandas reads as booleans or as inf, and cells with blanks,   *)
(* are not among the inputs; writes to the output files do not fail.       *)
(***************************************************************************)
EXTENDS Integers, Sequences, FiniteSets, TLC

VARIABLES
    csv,           \* amazon_orders.csv: [exists, rows]; rows of text cells
    webhook,       \* SLACK_WEBHOOK_URL ("" when not configured)
    pc,            \* position of the script
    df,            \* the loaded DataFrame: [loaded, dtypes, rows]
    k,             \* number of rows the for loop has consumed from df.iterrows()
    valid_rows,    \* list of row dicts
    invalid_rows,  \* list of row dicts, each with validation_errors
    errlog,        \* per consumed row, the printed outcome: the list of e.errors()
    summary,       \* the printed summary <<total, valid, invalid>>, or <<>>
    files,         \* [valid, invalid]: valid_rows.csv and invalid_rows.csv, each [exists, rows]
    files0,        \* the two output files as they were when the run started
    written,       \* the output files this run has written (to_csv calls)
    alerts,        \* notifications emitted by send_slack_notification, in order
    exit_status,   \* <<>> while running, <<code>> once the process has exited
    prev           \* what the previous run left behind (several runs in a row)

vars == <<csv, webhook, pc, df, k, valid_rows, invalid_rows, errlog, summary,
          files, files0, written, alerts, exit_status, prev>>

(***************************************************************************)
(* Bounds of the model.                                                    *)
(***************************************************************************)
MaxRows == 2
MaxRunRows == 2

(***************************************************************************)
(* Text cells of a CSV file.                                               *)
(***************************************************************************)
Fields == {"order_id", "qty", "amount", "currency", "ship_country", "date"}

Tok(kind, v, s, g) == [k |-> kind, v |-> v, s |-> s, g |-> g]
E == Tok("empty", 0, "", <<>>)
I(n) == Tok("int", n, "", <<>>)
D(tenths) == Tok("dec", tenths, "", <<>>)
W(s) == Tok("txt", 0, s, <<>>)
Dash(g) == Tok("dash", 0, "", g)

\* Number of characters of a cell's text, as far as min_length=1 needs it.
TextLen(c) ==
    CASE c.k = "empty" -> 0
      [] c.k = "txt" -> Len(c.s)
      [] c.k = "dash" -> Len(c.g)
      [] OTHER -> 1

(***************************************************************************)
(* Values of the DataFrame: int, float (tenths), NaN, or str (its text).   *)
(***************************************************************************)
Val(t, n, x) == [t |-> t, n |-> n, x |-> x]
IntV(n) == Val("int", n, E)
FloatV(tenths) == Val("float", tenths, E)
NaN == Val("nan", 0, E)
StrV(c) == Val("str", 0, c)

(***************************************************************************)
(* pd.read_csv: the dtype of a column is inferred from all of its cells;   *)
(* empty cells are NA.                                                     *)
(***************************************************************************)
ColKinds(rows, f) == {rows[i][f].k : i \in 1..Len(rows)}

ColDtype(rows, f) ==
    IF rows = <<>> THEN "object"
    ELSE IF ColKinds(rows, f) \subseteq {"int"} THEN "int64"
    ELSE IF ColKinds(rows, f) \subseteq {"int", "dec", "empty"} THEN "float64"
    ELSE "object"

ParseCell(dtype, c) ==
    CASE dtype = "int64" -> IntV(c.v)
      [] dtype = "float64" ->
            IF c.k = "empty" THEN NaN
            ELSE IF c.k = "int" THEN FloatV(10 * c.v) ELSE FloatV(c.v)
      [] OTHER -> IF c.k = "empty" THEN NaN ELSE StrV(c)

read_csv(file) ==
    [loaded |-> TRUE,
     dtypes |-> [f \in Fields |-> ColDtype(file.rows, f)],
     rows   |-> [i \in 1..Len(file.rows) |->
                   [f \in Fields |-> ParseCell(ColDtype(file.rows, f), file.rows[i][f])]]]

NoFrame == [loaded |-> FALSE, dtypes |-> [f \in Fields |-> "object"], rows |-> <<>>]

(***************************************************************************)
(* df.iterrows() / row.to_dict(): a row is a Series of the columns' common *)
(* dtype, so in a frame of numeric columns only, ints become floats.       *)
(***************************************************************************)
Upcasts(frame) ==
    /\ \A f \in Fields : frame.dtypes[f] \in {"int64", "float64"}
    /\ \E f \in Fields : frame.dtypes[f] = "float64"

UpcastVal(v) == IF v.t = "int" THEN FloatV(10 * v.n) ELSE v

row_to_dict(frame, i) ==
    IF Upcasts(frame)
    THEN [f \in Fields |-> UpcastVal(frame.rows[i][f])]
    ELSE frame.rows[i]

(***************************************************************************)
(* datetime.strptime(value, "%m-%d-%y"): %m and %d take one or two digits  *)
(* (a leading zero is optional), %y takes exactly two; the parsed numbers  *)
(* must then form a date of the calendar.                                  *)
(***************************************************************************)
Digits1to9 == 1..9

MonthRe(g) ==
    \/ Len(g) = 2 /\ g[1] = 1 /\ g[2] \in 0..2
    \/ Len(g) = 2 /\ g[1] = 0 /\ g[2] \in Digits1to9
    \/ Len(g) = 1 /\ g[1] \in Digits1to9

DayRe(g) ==
    \/ Len(g) = 2 /\ g[1] = 3 /\ g[2] \in 0..1
    \/ Len(g) = 2 /\ g[1] \in 1..2 /\ g[2] \in 0..9
    \/ Len(g) = 2 /\ g[1] = 0 /\ g[2] \in Digits1to9
    \/ Len(g) = 1 /\ g[1] \in Digits1to9

YearRe(g) == Len(g) = 2 /\ g[1] \in 0..9 /\ g[2] \in 0..9

GroupValue(g) == IF Len(g) = 1 THEN g[1] ELSE 10 * g[1] + g[2]

\* %y: 69..99 are 1969..1999, 00..68 are 2000..2068.
FullYear(yy) == IF yy >= 69 THEN 1900 + yy ELSE 2000 + yy

IsLeap(y) == (y % 4 = 0 /\ y % 100 # 0) \/ y % 400 = 0

DaysInMonth(y, m) ==
    IF m = 2 THEN (IF IsLeap(y) THEN 29 ELSE 28)
    ELSE IF m \in {4, 6, 9, 11} THEN 30 ELSE 31

strptime_ok(c) ==
    /\ c.k = "dash"
    /\ Len(c.g) = 3
    /\ MonthRe(c.g[1]) /\ DayRe(c.g[2]) /\ YearRe(c.g[3])
    /\ GroupValue(c.g[2]) <= DaysInMonth(FullYear(GroupValue(c.g[3])), GroupValue(c.g[1]))

(***************************************************************************)
(* class AmazonOrder(BaseModel): pydantic validates every field (lax mode) *)
(* and collects one error per failing field, in the order of declaration.  *)
(***************************************************************************)
Err(loc, type) == <<[loc |-> loc, type |-> type]>>

\* order_id: str = Field(min_length=1)
check_order_id(v) ==
    IF v.t # "str" THEN Err("order_id", "string_type")
    ELSE IF TextLen(v.x) < 1 THEN Err("order_id", "string_too_short")
    ELSE <<>>

\* qty: int = Field(ge=0). An int is taken as it is, a float only when it is
\* finite with no fractional part, a str only when it is an integer literal.
check_qty(v) ==
    CASE v.t = "int" ->
            IF v.n >= 0 THEN <<>> ELSE Err("qty", "greater_than_equal")
      [] v.t = "float" ->
            IF v.n % 10 # 0 THEN Err("qty", "int_from_float")
            ELSE IF v.n \div 10 >= 0 THEN <<>> ELSE Err("qty", "greater_than_equal")
      [] v.t = "nan" -> Err("qty", "finite_number")
      [] OTHER ->
            IF v.x.k # "int" THEN Err("qty", "int_parsing")
            ELSE IF v.x.v >= 0 THEN <<>> ELSE Err("qty", "greater_than_equal")

\* amount: float = Field(ge=0). NaN is a float, and NaN >= 0 is false.
check_amount(v) ==
    CASE v.t = "int" ->
            IF v.n >= 0 THEN <<>> ELSE Err("amount", "greater_than_equal")
      [] v.t = "float" ->
            IF v.n >= 0 THEN <<>> ELSE Err("amount", "greater_than_equal")
      [] v.t = "nan" -> Err("amount", "greater_than_equal")
      [] OTHER ->
            IF v.x.k \notin {"int", "dec"} THEN Err("amount", "float_parsing")
            ELSE IF v.x.v >= 0 THEN <<>> ELSE Err("amount", "greater_than_equal")

\* currency: str, then check_currency: value != "INR" raises.
check_currency(v) ==
    IF v.t # "str" THEN Err("currency", "string_type")
    ELSE IF v.x # W("INR") THEN Err("currency", "value_error")
    ELSE <<>>

\* ship_country: str, then check_country: value != "IN" raises.
check_country(v) ==
    IF v.t # "str" THEN Err("ship_country", "string_type")
    ELSE IF v.x # W("IN") THEN Err("ship_country", "value_error")
    ELSE <<>>

\* date: str, then check_date_format: strptime raising ValueError raises.
check_date_format(v) ==
    IF v.t # "str" THEN Err("date", "string_type")
    ELSE IF ~strptime_ok(v.x) THEN Err("date", "value_error")
    ELSE <<>>

\* AmazonOrder(**row_dict): the errors of the ValidationError, <<>> when none is raised.
AmazonOrder(row) ==
    check_order_id(row["order_id"]) \o check_qty(row["qty"]) \o check_amount(row["amount"])
      \o check_currency(row["currency"]) \o check_country(row["ship_country"])
      \o check_date_format(row["date"])

\* e.error_count()
error_count(errors) == Len(errors)

\* str(e.error_count()) + " error(s)"
ErrorSummary(errors) == ToString(error_count(errors)) \o " error(s)"

(***************************************************************************)
(* The body of the for loop: the row goes to valid_rows when AmazonOrder   *)
(* raises no ValidationError, else to invalid_rows with validation_errors. *)
(***************************************************************************)
Annotate(row_dict, errors) ==
    row_dict @@ ("validation_errors" :> StrV(W(ErrorSummary(errors))))

\* valid_rows.append(row_dict) placed before the AmazonOrder(**row_dict) call.
LoopBodyAppendsFirst(valid, invalid, row_dict) ==
    LET errors == AmazonOrder(row_dict) IN
    IF errors = <<>>
    THEN [valid |-> Append(valid, row_dict), invalid |-> invalid]
    ELSE [valid |-> Append(valid, row_dict),
          invalid |-> Append(invalid, Annotate(row_dict, errors))]

\* insert(0, ...) in place of append(...).
LoopBodyInserts(valid, invalid, row_dict) ==
    LET errors == AmazonOrder(row_dict) IN
    IF errors = <<>>
    THEN [valid |-> <<row_dict>> \o valid, invalid |-> invalid]
    ELSE [valid |-> valid, invalid |-> <<Annotate(row_dict, errors)>> \o invalid]

LoopBody(valid, invalid, row_dict) ==
    LET errors == AmazonOrder(row_dict) IN
    IF errors = <<>>
    THEN [valid |-> Append(valid, row_dict), invalid |-> invalid]
    ELSE [valid |-> valid, invalid |-> Append(invalid, Annotate(row_dict, errors))]

(***************************************************************************)
(* pd.DataFrame(rows).to_csv(path, index=False): every value is written as *)
(* text; a float always shows its fractional part, NaN is an empty cell.   *)
(***************************************************************************)
Render(v) ==
    CASE v.t = "int" -> I(v.n)
      [] v.t = "float" -> D(v.n)
      [] v.t = "nan" -> E
      [] OTHER -> v.x

to_csv(rows) ==
    [exists |-> TRUE,
     rows |-> [i \in 1..Len(rows) |-> [c \in DOMAIN rows[i] |-> Render(rows[i][c])]]]

NoFile == [exists |-> FALSE, rows |-> <<>>]

\* >= 0 in place of > 0: an empty partition is written too.
AlwaysSave(rows) == Len(rows) >= 0

\* if len(valid_rows) > 0:  /  if len(invalid_rows) > 0:
ShouldSave(rows) == Len(rows) > 0

\* to_csv(path, mode='a'): the rows are added to what the file holds.
SaveToAppending(file, rows) ==
    IF ShouldSave(rows) THEN [exists |-> TRUE, rows |-> file.rows \o to_csv(rows).rows] ELSE file

SaveTo(file, rows) == IF ShouldSave(rows) THEN to_csv(rows) ELSE file

(***************************************************************************)
(* send_slack_notification(invalid_count, total_count)                     *)
(***************************************************************************)
WebhookUrl == "https://hooks.slack.example/services/T"

Message(invalid_count, total_count) ==
    [total |-> total_count, valid |-> total_count - invalid_count, invalid |-> invalid_count]

\* >= 0 in place of > 0: the alert is sent for a clean run too.
AlwaysNotify(invalid) == Len(invalid) >= 0

\* if len(invalid_rows) > 0: send_slack_notification(...)
ShouldNotify(invalid) == Len(invalid) > 0

\* What requests.post can come to: status 200, another status, or an exception.
PostOutcomes == {"200", "non200", "exception"}

Alert(via, outcome, invalid_count, total_count) ==
    [via |-> via, outcome |-> outcome, msg |-> Message(invalid_count, total_count)]

\* > 1 in place of > 0.
ExitCodeOffByOne(invalid) == IF Len(invalid) > 1 THEN 1 ELSE 0

\* sys.exit(1) if len(invalid_rows) > 0 else sys.exit(0)
ExitCode(invalid) == IF Len(invalid) > 0 THEN 1 ELSE 0

\* An uncaught exception ends the interpreter with status 1.
UncaughtExit == 1

(***************************************************************************)
(* Order of the statements of the script.                                  *)
(***************************************************************************)
\* The notification block placed before the saving block.
NotifyBeforeSave == "Notifying"

AfterLoad == "Validating"
AfterLoop == "Summarizing"
AfterSummary == "PersistingValid"
AfterSaveValid == "PersistingInvalid"
AfterSaveInvalid == "Notifying"
AfterNotify == "Exiting"

(***************************************************************************)
(* Inputs.                                                                 *)
(***************************************************************************)
Row(o, q, a, c, s, d) ==
    [order_id |-> o, qty |-> q, amount |-> a, currency |-> c, ship_country |-> s, date |-> d]

D011524 == Dash(<<<<0, 1>>, <<1, 5>>, <<2, 4>>>>)
BaseRow == Row(W("A1"), I(2), D(1000), W("INR"), W("IN"), D011524)
RowA2 == Row(W("A2"), I(-1), D(500), W("USD"), W("IN"), D011524)
RowNoQty == Row(W("A3"), E, D(1000), W("INR"), W("IN"), D011524)

WithField(r, f, c) == [r EXCEPT ![f] = c]

Rows ==
    { BaseRow, RowA2, RowNoQty,
      WithField(BaseRow, "order_id", E),
      WithField(BaseRow, "order_id", I(1001)),
      WithField(BaseRow, "qty", I(-1)),
      WithField(BaseRow, "qty", D(25)),
      WithField(BaseRow, "qty", W("abc")),
      WithField(BaseRow, "amount", D(-50)),
      WithField(BaseRow, "amount", W("abc")),
      WithField(BaseRow, "amount", E),
      WithField(BaseRow, "amount", I(100)),
      WithField(BaseRow, "currency", W("inr")),
      WithField(BaseRow, "currency", E),
      WithField(BaseRow, "ship_country", W("US")),
      WithField(BaseRow, "ship_country", E),
      WithField(BaseRow, "date", Dash(<<<<1>>, <<5>>, <<2, 4>>>>)),
      WithField(BaseRow, "date", Dash(<<<<0, 2>>, <<3, 0>>, <<2, 4>>>>)),
      WithField(BaseRow, "date", Dash(<<<<0, 2>>, <<2, 9>>, <<2, 4>>>>)),
      WithField(BaseRow, "date", Dash(<<<<0, 2>>, <<2, 9>>, <<2, 3>>>>)),
      WithField(BaseRow, "date", Dash(<<<<1, 3>>, <<0, 1>>, <<2, 4>>>>)),
      WithField(BaseRow, "date", Dash(<<<<2, 0, 2, 4>>, <<0, 1>>, <<1, 5>>>>)),
      WithField(BaseRow, "date", E),
      WithField(BaseRow, "date", I(20240115)),
      WithField(RowA2, "date", Dash(<<<<1>>, <<5>>, <<2, 4>>>>)),
      Row(E, I(-1), W("abc"), W("USD"), W("US"), Dash(<<<<0, 2>>, <<3, 0>>, <<2, 4>>>>)),
      Row(I(1001), I(2), D(1000), E, E, E) }

RunRows == {BaseRow, RowA2, RowNoQty}

Tables(rows, n) == UNION {[1..m -> rows] : m \in 0..n}

File(rows) == [exists |-> TRUE, rows |-> rows]
Missing == [exists |-> FALSE, rows |-> <<>>]

Inputs == {File(t) : t \in Tables(Rows, MaxRows)} \cup {Missing}
RunInputs == {File(t) : t \in Tables(RunRows, MaxRunRows)} \cup {Missing}

NoPrev ==
    [present |-> FALSE, csv |-> Missing, valid_rows |-> <<>>, invalid_rows |-> <<>>,
     files |-> [valid |-> NoFile, invalid |-> NoFile], exit_status |-> <<>>]

(***************************************************************************)
(* The state of a process that is about to run the script.                 *)
(***************************************************************************)
Start ==
    /\ pc = "Loading"
    /\ df = NoFrame
    /\ k = 0
    /\ valid_rows = <<>>
    /\ invalid_rows = <<>>
    /\ errlog = <<>>
    /\ summary = <<>>
    /\ written = {}
    /\ alerts = <<>>
    /\ exit_status = <<>>

Init ==
    /\ csv \in Inputs
    /\ webhook \in {"", WebhookUrl}
    /\ files = [valid |-> NoFile, invalid |-> NoFile]
    /\ files0 = files
    /\ prev = NoPrev
    /\ Start

InitRuns ==
    /\ csv \in RunInputs
    /\ webhook \in {"", WebhookUrl}
    /\ files = [valid |-> NoFile, invalid |-> NoFile]
    /\ files0 = files
    /\ prev = NoPrev
    /\ Start

(***************************************************************************)
(* The statements of the script.                                           *)
(***************************************************************************)
\* df = pd.read_csv('amazon_orders.csv')
Load ==
    /\ pc = "Loading"
    /\ csv.exists
    /\ df' = read_csv(csv)
    /\ pc' = AfterLoad
    /\ UNCHANGED <<csv, webhook, k, valid_rows, invalid_rows, errlog, summary,
                   files, files0, written, alerts, exit_status, prev>>

\* pd.read_csv raises: nothing catches it, and the interpreter exits.
LoadFails ==
    /\ pc = "Loading"
    /\ ~csv.exists
    /\ exit_status' = <<UncaughtExit>>
    /\ pc' = "Terminated"
    /\ UNCHANGED <<csv, webhook, df, k, valid_rows, invalid_rows, errlog, summary,
                   files, files0, written, alerts, prev>>

\* for index, row in df.iterrows(): one iteration
ValidateRow ==
    /\ pc = "Validating"
    /\ k < Len(df.rows)
    /\ LET row_dict == row_to_dict(df, k + 1)
           parts == LoopBody(valid_rows, invalid_rows, row_dict)
       IN /\ valid_rows' = parts.valid
          /\ invalid_rows' = parts.invalid
          /\ errlog' = Append(errlog, AmazonOrder(row_dict))
    /\ k' = k + 1
    /\ UNCHANGED <<csv, webhook, pc, df, summary, files, files0, written, alerts,
                   exit_status, prev>>

\* df.iterrows() is exhausted
LoopExit ==
    /\ pc = "Validating"
    /\ k = Len(df.rows)
    /\ pc' = AfterLoop
    /\ UNCHANGED <<csv, webhook, df, k, valid_rows, invalid_rows, errlog, summary,
                   files, files0, written, alerts, exit_status, prev>>

\* print Total rows / Valid rows / Invalid rows
Summarize ==
    /\ pc = "Summarizing"
    /\ summary' = <<Len(df.rows), Len(valid_rows), Len(invalid_rows)>>
    /\ pc' = AfterSummary
    /\ UNCHANGED <<csv, webhook, df, k, valid_rows, invalid_rows, errlog,
                   files, files0, written, alerts, exit_status, prev>>

\* if len(valid_rows) > 0: pd.DataFrame(valid_rows).to_csv('valid_rows.csv', index=False)
SaveValid ==
    /\ pc = "PersistingValid"
    /\ files' = [files EXCEPT !.valid = SaveTo(@, valid_rows)]
    /\ written' = IF ShouldSave(valid_rows) THEN written \cup {"valid_rows.csv"} ELSE written
    /\ pc' = AfterSaveValid
    /\ UNCHANGED <<csv, webhook, df, k, valid_rows, invalid_rows, errlog, summary,
                   files0, alerts, exit_status, prev>>

\* if len(invalid_rows) > 0: pd.DataFrame(invalid_rows).to_csv('invalid_rows.csv', index=False)
SaveInvalid ==
    /\ pc = "PersistingInvalid"
    /\ files' = [files EXCEPT !.invalid = SaveTo(@, invalid_rows)]
    /\ written' = IF ShouldSave(invalid_rows) THEN written \cup {"invalid_rows.csv"} ELSE written
    /\ pc' = AfterSaveInvalid
    /\ UNCHANGED <<csv, webhook, df, k, valid_rows, invalid_rows, errlog, summary,
                   files0, alerts, exit_status, prev>>

\* send_slack_notification with no webhook: the message is printed
NotifyMock ==
    /\ pc = "Notifying"
    /\ ShouldNotify(invalid_rows)
    /\ webhook = ""
    /\ alerts' = Append(alerts, Alert("stdout", "printed", Len(invalid_rows), Len(df.rows)))
    /\ pc' = AfterNotify
    /\ UNCHANGED <<csv, webhook, df, k, valid_rows, invalid_rows, errlog, summary,
                   files, files0, written, exit_status, prev>>

\* send_slack_notification with a webhook: one requests.post inside try/except
NotifyPost ==
    /\ pc = "Notifying"
    /\ ShouldNotify(invalid_rows)
    /\ webhook # ""
    /\ \E outcome \in PostOutcomes :
          alerts' = Append(alerts, Alert("post", outcome, Len(invalid_rows), Len(df.rows)))
    /\ pc' = AfterNotify
    /\ UNCHANGED <<csv, webhook, df, k, valid_rows, invalid_rows, errlog, summary,
                   files, files0, written, exit_status, prev>>

\* len(invalid_rows) > 0 is false: send_slack_notification is not called
SkipNotify ==
    /\ pc = "Notifying"
    /\ ~ShouldNotify(invalid_rows)
    /\ pc' = AfterNotify
    /\ UNCHANGED <<csv, webhook, df, k, valid_rows, invalid_rows, errlog, summary,
                   files, files0, written, alerts, exit_status, prev>>

\* sys.exit(1) / sys.exit(0)
Exit ==
    /\ pc = "Exiting"
    /\ exit_status' = <<ExitCode(invalid_rows)>>
    /\ pc' = "Terminated"
    /\ UNCHANGED <<csv, webhook, df, k, valid_rows, invalid_rows, errlog, summary,
                   files, files0, written, alerts, prev>>

\* A new process: every name of the script is bound afresh.
Restart ==
    /\ pc' = "Loading"
    /\ df' = NoFrame
    /\ k' = 0
    /\ valid_rows' = <<>>
    /\ invalid_rows' = <<>>
    /\ errlog' = <<>>
    /\ summary' = <<>>
    /\ written' = {}
    /\ alerts' = <<>>
    /\ exit_status' = <<>>

\* The script is started again, in the same directory and environment, on the
\* same input file.
RerunSame ==
    /\ pc = "Terminated"
    /\ prev' = [present |-> TRUE, csv |-> csv, valid_rows |-> valid_rows,
                invalid_rows |-> invalid_rows, files |-> files, exit_status |-> exit_status]
    /\ files0' = files
    /\ UNCHANGED <<csv, webhook, files>>
    /\ Restart

\* The script is started again after the input file has been replaced.
RerunOther ==
    /\ pc = "Terminated"
    /\ csv' \in RunInputs \ {csv}
    /\ prev' = NoPrev
    /\ files0' = files
    /\ UNCHANGED <<webhook, files>>
    /\ Restart

Next ==
    \/ Load
    \/ LoadFails
    \/ ValidateRow
    \/ LoopExit
    \/ Summarize
    \/ SaveValid
    \/ SaveInvalid
    \/ NotifyMock
    \/ NotifyPost
    \/ SkipNotify
    \/ Exit

NextRuns ==
    \/ Next
    \/ RerunSame
    \/ RerunOther

Spec == Init /\ [][Next]_vars

SpecRuns == InitRuns /\ [][NextRuns]_vars

(***************************************************************************)
(* The six field constraints as the specification states them, on the raw  *)
(* value of a field.                                                       *)
(***************************************************************************)
HasNumber(v) == v.t \in {"int", "float"} \/ (v.t = "str" /\ v.x.k \in {"int", "dec"})

\* The number a value denotes, in tenths.
Number(v) ==
    CASE v.t = "int" -> 10 * v.n
      [] v.t = "float" -> v.n
      [] OTHER -> IF v.x.k = "int" THEN 10 * v.x.v ELSE v.x.v

TwoDigitDate(c) ==
    /\ c.k = "dash"
    /\ Len(c.g) = 3
    /\ \A j \in 1..3 : Len(c.g[j]) = 2 /\ \A d \in 1..2 : c.g[j][d] \in 0..9
    /\ GroupValue(c.g[1]) \in 1..12
    /\ GroupValue(c.g[2]) >= 1
    /\ GroupValue(c.g[2]) <= DaysInMonth(FullYear(GroupValue(c.g[3])), GroupValue(c.g[1]))

Holds(f, v) ==
    CASE f = "order_id" -> v.t = "str" /\ TextLen(v.x) >= 1
      [] f = "qty" -> HasNumber(v) /\ Number(v) % 10 = 0 /\ Number(v) >= 0
      [] f = "amount" -> HasNumber(v) /\ Number(v) >= 0
      [] f = "currency" -> v.t = "str" /\ v.x = W("INR")
      [] f = "ship_country" -> v.t = "str" /\ v.x = W("IN")
      [] OTHER -> v.t = "str" /\ TwoDigitDate(v.x)

Violated(row) == {f \in Fields : ~Holds(f, row[f])}

Reported(errors) == {errors[j].loc : j \in 1..Len(errors)}

\* The raw fields of a row dict, without validation_errors.
RawFields(row) == [f \in Fields |-> row[f]]

\* The rows consumed so far whose constraints all hold (or not), in input order.
RECURSIVE RowsWhere(_, _)
RowsWhere(n, allHold) ==
    IF n = 0 THEN <<>>
    ELSE LET rest == RowsWhere(n - 1, allHold)
             row == row_to_dict(df, n)
         IN IF (Violated(row) = {}) = allHold THEN Append(rest, row) ELSE rest

\* The input positions the loop has classified valid (or invalid), in input order.
RECURSIVE Classified(_, _)
Classified(n, asValid) ==
    IF n = 0 THEN <<>>
    ELSE LET rest == Classified(n - 1, asValid)
         IN IF (errlog[n] = <<>>) = asValid THEN Append(rest, n) ELSE rest

Persisted == pc \in {"Notifying", "Exiting", "Terminated"} /\ df.loaded

PhaseOf(p) ==
    CASE p \in {"PersistingValid", "PersistingInvalid"} -> "Persisting"
      [] p = "Exiting" -> "Notifying"
      [] OTHER -> p

PhaseOrder == <<"Loading", "Validating", "Summarizing", "Persisting", "Notifying", "Terminated">>

PhaseRank(p) == CHOOSE j \in 1..Len(PhaseOrder) : PhaseOrder[j] = PhaseOf(p)

(***************************************************************************)
(* C1. Every consumed row is in valid_rows iff its six constraints all     *)
(* hold, two-digit MM-DD-YY date included; otherwise it is in invalid_rows *)
(* and every violated field has an error in the row's error list.          *)
(***************************************************************************)
C1_ValidIffAllSixHold ==
    /\ valid_rows = RowsWhere(k, TRUE)
    /\ [j \in 1..Len(invalid_rows) |-> RawFields(invalid_rows[j])] = RowsWhere(k, FALSE)
    /\ \A n \in 1..k : Violated(row_to_dict(df, n)) \subseteq Reported(errlog[n])

(***************************************************************************)
(* C5. The error count reported for a row is the number of its violated    *)
(* fields: between 1 and 6 for a row of invalid_rows, whose annotation is  *)
(* "N error(s)", and 0 for a row of valid_rows.                            *)
(***************************************************************************)
C5_ErrorCountIsViolatedFields ==
    /\ \A n \in 1..k : error_count(errlog[n]) = Cardinality(Violated(row_to_dict(df, n)))
    /\ \A j \in 1..Len(invalid_rows) :
          LET n == Classified(k, FALSE)[j] IN
          /\ error_count(errlog[n]) \in 1..6
          /\ invalid_rows[j]["validation_errors"]
                = StrV(W(ToString(Cardinality(Violated(row_to_dict(df, n)))) \o " error(s)"))

(***************************************************************************)
(* C2 as stated: the exit code of the process is 1 iff at least one row    *)
(* was classified invalid, and 0 otherwise.                                *)
(***************************************************************************)
C2_ExitCodeAsStated ==
    pc = "Terminated" =>
        /\ exit_status = <<1>> <=> Len(invalid_rows) > 0
        /\ exit_status = <<0>> <=> Len(invalid_rows) = 0

(***************************************************************************)
(* C2 amended: in a run whose input table loaded, the exit code is 1 iff   *)
(* at least one row was classified invalid and 0 otherwise, whatever the   *)
(* notification came to.                                                   *)
(***************************************************************************)
C2_ExitCode ==
    (pc = "Terminated" /\ df.loaded) =>
        /\ exit_status = <<1>> <=> Len(invalid_rows) > 0
        /\ exit_status = <<0>> <=> Len(invalid_rows) = 0

C2_Witness ==
    /\ pc = "Terminated"
    /\ df.loaded
    /\ exit_status = <<1>>
    /\ Len(alerts) = 1
    /\ alerts[1].outcome = "exception"

(***************************************************************************)
(* C3. After k rows have been consumed, len(valid_rows) + len(invalid_rows)*)
(* is k; from the summary on the two counts add up to the number of rows   *)
(* of the loaded table; every iteration adds its row to exactly one list.  *)
(***************************************************************************)
CountsAddUp ==
    /\ Len(valid_rows) + Len(invalid_rows) = k
    /\ k <= Len(df.rows)
    /\ (df.loaded /\ pc # "Validating") => k = Len(csv.rows)
    /\ summary # <<>> => summary = <<Len(csv.rows), Len(valid_rows), Len(invalid_rows)>>
    /\ \A j \in 1..Len(alerts) :
          alerts[j].msg.valid + alerts[j].msg.invalid = Len(csv.rows)

OneListGrows ==
    k' # k =>
        /\ k' = k + 1
        /\ \/ Len(valid_rows') = Len(valid_rows) + 1 /\ invalid_rows' = invalid_rows
           \/ Len(invalid_rows') = Len(invalid_rows) + 1 /\ valid_rows' = valid_rows

C3_PartitionCounts == [](CountsAddUp) /\ [][OneListGrows]_vars

C3_Witness ==
    /\ pc = "Terminated"
    /\ k = 2
    /\ Len(valid_rows) = 1
    /\ Len(invalid_rows) = 1

(***************************************************************************)
(* C4. valid_rows is the subsequence of the consumed rows classified valid *)
(* and invalid_rows the subsequence of those classified invalid, each in   *)
(* input order.                                                            *)
(***************************************************************************)
C4_StablePartition ==
    /\ valid_rows = [j \in 1..Len(Classified(k, TRUE)) |->
                        row_to_dict(df, Classified(k, TRUE)[j])]
    /\ [j \in 1..Len(invalid_rows) |-> RawFields(invalid_rows[j])]
          = [j \in 1..Len(Classified(k, FALSE)) |->
                row_to_dict(df, Classified(k, FALSE)[j])]

C4_Witness ==
    /\ Len(invalid_rows) = 2
    /\ RawFields(invalid_rows[1]) # RawFields(invalid_rows[2])

(***************************************************************************)
(* C6. At most one alert per run, and at termination there is one iff      *)
(* invalid_rows is non-empty; it carries the counts of the partitions; it  *)
(* is printed when no webhook is configured and is one POST otherwise.     *)
(***************************************************************************)
C6_NotificationIffInvalid ==
    /\ Len(alerts) <= 1
    /\ PhaseRank(pc) < PhaseRank("Notifying") => alerts = <<>>
    /\ pc \in {"Exiting", "Terminated"} => (Len(alerts) = 1 <=> Len(invalid_rows) > 0)
    /\ \A j \in 1..Len(alerts) :
          /\ alerts[j].msg = [total |-> Len(csv.rows), valid |-> Len(valid_rows),
                              invalid |-> Len(invalid_rows)]
          /\ alerts[j].via = "stdout" <=> webhook = ""
          /\ alerts[j].via = "post" <=> webhook # ""
          /\ alerts[j].via = "post" => alerts[j].outcome \in PostOutcomes

C6_Witness ==
    /\ pc = "Terminated"
    /\ Len(alerts) = 1
    /\ alerts[1].via = "stdout"
    /\ alerts[1].msg.valid = 1
    /\ alerts[1].msg.invalid = 1

(***************************************************************************)
(* C7. Once the run has saved its results, an output file has been written *)
(* by the run iff its partition is non-empty; a written file holds the     *)
(* rows of the partition in order, each field with the value the input     *)
(* file has for it (and validation_errors for invalid rows); a file that   *)
(* was not written is as it was when the run started.                      *)
(***************************************************************************)
IsNumberCell(c) == c.k \in {"int", "dec"}
CellNumber(c) == IF c.k = "int" THEN 10 * c.v ELSE c.v

SameValue(a, b) ==
    \/ a = b
    \/ IsNumberCell(a) /\ IsNumberCell(b) /\ CellNumber(a) = CellNumber(b)

HoldsPartition(file, positions, columns) ==
    /\ file.exists
    /\ Len(file.rows) = Len(positions)
    /\ \A j \in 1..Len(positions) :
          /\ DOMAIN file.rows[j] = columns
          /\ \A f \in Fields : SameValue(file.rows[j][f], csv.rows[positions[j]][f])

C7_WrittenIffNonEmpty ==
    /\ ~Persisted => (written \subseteq {"valid_rows.csv"} /\ files.invalid = files0.invalid)
    /\ Persisted =>
        /\ "valid_rows.csv" \in written <=> Len(valid_rows) > 0
        /\ "invalid_rows.csv" \in written <=> Len(invalid_rows) > 0
        /\ "valid_rows.csv" \in written =>
              HoldsPartition(files.valid, Classified(k, TRUE), Fields)
        /\ "invalid_rows.csv" \in written =>
              /\ HoldsPartition(files.invalid, Classified(k, FALSE),
                                Fields \cup {"validation_errors"})
              /\ \A j \in 1..Len(invalid_rows) :
                    files.invalid.rows[j]["validation_errors"]
                       = W(ToString(Len(errlog[Classified(k, FALSE)[j]])) \o " error(s)")
        /\ "valid_rows.csv" \notin written => files.valid = files0.valid
        /\ "invalid_rows.csv" \notin written => files.invalid = files0.invalid

C7_Witness ==
    /\ pc = "Terminated"
    /\ written = {"invalid_rows.csv"}
    /\ Len(files.invalid.rows) = 2
    /\ files.valid.exists
    /\ files.valid = files0.valid

(***************************************************************************)
(* C8. The phases follow one another in the order Loading, Validating,     *)
(* Summarizing, Persisting, Notifying, Terminated; no output file is       *)
(* written before every row is classified; an alert is emitted only after  *)
(* invalid_rows.csv has been written; a failed load ends the run with a    *)
(* non-zero status with no row validated, no file written and no alert.    *)
(***************************************************************************)
PhaseStep ==
    \/ PhaseRank(pc') = PhaseRank(pc)
    \/ PhaseRank(pc') = PhaseRank(pc) + 1
    \/ pc = "Loading" /\ ~csv.exists /\ pc' = "Terminated"

PhaseFacts ==
    /\ (written # {} \/ files # files0) =>
          (df.loaded /\ k = Len(df.rows) /\ PhaseRank(pc) >= PhaseRank("PersistingValid"))
    /\ alerts # <<>> => "invalid_rows.csv" \in written
    /\ ~csv.exists =>
          /\ pc \in {"Loading", "Terminated"}
          /\ k = 0 /\ errlog = <<>> /\ valid_rows = <<>> /\ invalid_rows = <<>>
          /\ written = {} /\ files = files0 /\ alerts = <<>>
          /\ pc = "Terminated" => (Len(exit_status) = 1 /\ exit_status[1] # 0)

C8_PhaseOrder == [](PhaseFacts) /\ [][PhaseStep]_vars

C8_Witness ==
    /\ pc = "Terminated"
    /\ written = {"valid_rows.csv", "invalid_rows.csv"}
    /\ Len(alerts) = 1

(***************************************************************************)
(* C9. When a run has terminated, each output file holds the records of    *)
(* that run's partition and no others.                                     *)
(***************************************************************************)
C9_NoRecordOfEarlierRun ==
    pc = "Terminated" =>
        /\ files.valid.rows = to_csv(valid_rows).rows
        /\ files.invalid.rows = to_csv(invalid_rows).rows

(***************************************************************************)
(* C10. A second run on the same input file, with the same webhook         *)
(* configuration, ends with the same valid_rows, the same invalid_rows     *)
(* (annotations included), the same contents of both output files and the  *)
(* same exit code as the run before it.                                    *)
(***************************************************************************)
C10_Idempotent ==
    (prev.present /\ pc = "Terminated") =>
        /\ csv = prev.csv
        /\ valid_rows = prev.valid_rows
        /\ invalid_rows = prev.invalid_rows
        /\ files = prev.files
        /\ exit_status = prev.exit_status

C10_Witness ==
    /\ prev.present
    /\ pc = "Terminated"
    /\ Len(valid_rows) = 1
    /\ Len(invalid_rows) = 1
    /\ files.valid.exists
    /\ files.invalid.exists

====
